---- MODULE Spec2Model ----
(***************************************************************************)
(* Model of the MagaDrive pricing core (Microservices/pricing_core_cpp).   *)
(*                                                                         *)
(* The repository holds three variants of the service:                     *)
(*   - the httplib service (main.cpp 1-336): Config, PriceRequest,         *)
(*     PricingEngine and the GET /healthz, GET /readyz, POST /price        *)
(*     handlers, built on the vendored httplib / nlohmann::json stubs;     *)
(*   - the magadrive engine (pricing_engine.cpp) and its libmicrohttpd     *)
(*     HttpServer (vendor/httplib.h 416-638);                              *)
(*   - the socket PricingService / HttpServer (main.cpp 338-617).          *)
(*                                                                         *)
(* C++ doubles are modelled as exact rationals [n, d] (d > 0, lowest       *)
(* terms); the IEEE rounding error of the products is not modelled.        *)
(* A multiplier such as 1.3 is Rat(13, 10).                                *)
(***************************************************************************)
EXTENDS Integers, Sequences, FiniteSets, TLC

VARIABLES
    mainConfig,  \* Config of main(), captured by the GET /readyz handler
    server,      \* the magadrive::HttpServer object (http_server.h 48-54)
    config,      \* Config of the global pricingEngine (main.cpp 20-36)
    rng,         \* mt19937 of the global pricingEngine: [seed, idx]
    hour,        \* tm_hour of the local wall clock
    priceLog,    \* number of "Price calculated" lines written so far
    socket,      \* the socket PricingService: [demandMultiplier, counter]
    last         \* the operation completed last, with its input and its result

vars == <<mainConfig, server, config, rng, hour, priceLog, socket, last>>

-----------------------------------------------------------------------------
(* Bounds of the model *)

\* number of demand draws one behaviour may take from the generator
MaxDraws == 2
\* number of engine calls one behaviour of the repeated-call machine may make
MaxCalls == 3
\* number of server threads that run the POST /price handler at once
MaxWorkers == 2
\* number of daemons one behaviour of magadrive::HttpServer may start
MaxDaemons == 2
\* number of trace ids one behaviour of the socket service may generate
MaxTraceIds == 2
\* largest seed the generator may be constructed with
MaxSeed == 1

-----------------------------------------------------------------------------
(* Exact rational arithmetic standing for C++ double arithmetic *)

Abs(x) == IF x < 0 THEN -x ELSE x

RECURSIVE GCD(_, _)
GCD(a, b) == IF b = 0 THEN a ELSE GCD(b, a % b)

Rat(n, d) ==
    LET g == GCD(Abs(n), Abs(d))
        s == IF d < 0 THEN -1 ELSE 1
    IN  [n |-> s * (n \div g), d |-> s * (d \div g)]

RInt(i) == [n |-> i, d |-> 1]

RAdd(x, y) == Rat(x.n * y.d + y.n * x.d, x.d * y.d)

RMul(x, y) ==
    LET g1 == GCD(Abs(x.n), y.d)
        g2 == GCD(Abs(y.n), x.d)
    IN  Rat((x.n \div g1) * (y.n \div g2), (x.d \div g2) * (y.d \div g1))

RLeq(x, y) == x.n * y.d <= y.n * x.d
RLess(x, y) == x.n * y.d < y.n * x.d

\* std::round: nearest integer, ties away from zero
Round(x) ==
    IF x.n >= 0 THEN (2 * x.n + x.d) \div (2 * x.d)
    ELSE -((2 * (-x.n) + x.d) \div (2 * x.d))

-----------------------------------------------------------------------------
(* nlohmann::json stub values (vendor/httplib.h 178-414) *)

JNull == [type |-> "null"]
JNum(v) == [type |-> "number", num |-> v]
JStr(s) == [type |-> "string", str |-> s]
JObj(f) == [type |-> "object", fields |-> f]

\* json::contains
Contains(j, key) == j.type = "object" /\ key \in DOMAIN j.fields

\* const json::at / const operator[]: throws unless j is an object holding key
AtThrows(j, key) == ~Contains(j, key)

\* json::get<double>, json::get<std::string>: throw on another type
GetDoubleThrows(j) == j.type # "number"
GetStringThrows(j) == j.type # "string"

\* A request body is its text, cut into tokens.  A quoted string is the token
\* of its content, a number literal the token of its digits.
NumLit == ("5000" :> 5000) @@ ("600" :> 600) @@ ("0" :> 0) @@ ("-5" :> -5)
          @@ ("12000" :> 12000) @@ ("900" :> 900)

Punct == {"{", "}", ":", ","}

\* str.find(s) != npos, at the granularity of tokens
Mentions(body, s) == \E i \in DOMAIN body : body[i] = s

\* json::parse of the stub: never throws parse_error; a text that mentions
\* distanceM becomes one fixed request object, every other text becomes null
Parse(body) ==
    IF Mentions(body, "distanceM")
    THEN JObj(("distanceM" :> JNum(5000)) @@ ("etaSec" :> JNum(600))
              @@ ("class" :> JStr("comfort")))
    ELSE JNull

-----------------------------------------------------------------------------
(* Config (main.cpp 20-36): every field is getenv/atof or its default *)

DefaultBasePrice == 100
DefaultPricePerKm == 15
DefaultPricePerMinute == 3

\* values BASE_PRICE may carry in the environment (atof accepts any number)
BasePriceEnv == {DefaultBasePrice, -500}

\* values of (DEMAND_COEFF_MIN, DEMAND_COEFF_MAX); the first is the default,
\* the last two fix the coefficient (min = max) at 1.0 and at 1.125
DemandEnv == {<<Rat(10, 10), Rat(14, 10)>>, <<Rat(12, 10), Rat(20, 10)>>,
              <<Rat(10, 10), Rat(10, 10)>>, <<Rat(1125, 1000), Rat(1125, 1000)>>}

MakeConfig(base, demand) ==
    [base_price             |-> RInt(base),
     price_per_km           |-> RInt(DefaultPricePerKm),
     price_per_minute       |-> RInt(DefaultPricePerMinute),
     demand_coefficient_min |-> demand[1],
     demand_coefficient_max |-> demand[2]]

DefaultConfig == MakeConfig(DefaultBasePrice, <<Rat(10, 10), Rat(14, 10)>>)

Configs == {MakeConfig(b, d) : b \in BasePriceEnv, d \in DemandEnv}

-----------------------------------------------------------------------------
(* PriceRequest (main.cpp 39-55) *)

\* PriceRequest::fromJson: any exception of at()/get() is caught and answered
\* false; "class" defaults to "economy" when the key is absent
FromJson(j) ==
    LET throws ==
            \/ AtThrows(j, "distanceM")
            \/ GetDoubleThrows(j.fields["distanceM"])
            \/ AtThrows(j, "etaSec")
            \/ GetDoubleThrows(j.fields["etaSec"])
            \/ (Contains(j, "class") /\ GetStringThrows(j.fields["class"]))
    IN  IF throws
        THEN [ok |-> FALSE, distanceM |-> 0, etaSec |-> 0, vehicleClass |-> ""]
        ELSE [ok           |-> TRUE,
              distanceM    |-> j.fields["distanceM"].num,
              etaSec       |-> j.fields["etaSec"].num,
              vehicleClass |-> IF Contains(j, "class")
                               THEN j.fields["class"].str ELSE "economy"]

-----------------------------------------------------------------------------
(* PricingEngine of the httplib service (main.cpp 58-154) *)

\* number of values the unit draw of the generator is cut into
UGrid == 100

\* The generator: a deterministic sequence per seed.  The unit draw of the
\* idx-th call, in [0, 1), as a multiple of 1/UGrid.
RngUnit(g) == Rat((g.seed * 37 + g.idx * 61 + 1) % UGrid, UGrid)

\* uniform_real_distribution<double>(a, b)(rng) = a + (b - a) * unit draw
DemandDraw(cfg, g) ==
    RAdd(cfg.demand_coefficient_min,
         RMul(RAdd(cfg.demand_coefficient_max,
                   RMul(RInt(-1), cfg.demand_coefficient_min)),
              RngUnit(g)))

\* PricingEngine::getClassMultiplier (main.cpp 125-131)
GetClassMultiplier(vehicleClass) ==
    CASE vehicleClass = "economy"  -> Rat(10, 10)
      [] vehicleClass = "comfort"  -> Rat(13, 10)
      [] vehicleClass = "business" -> Rat(18, 10)
      [] vehicleClass = "premium"  -> Rat(25, 10)
      [] OTHER                     -> Rat(10, 10)

\* the places where an exception (std::bad_alloc, std::length_error) can leave
\* the code of one POST /price: json::parse, logPriceCalculation, the
\* construction of calculatePrice's result, priceResponse.dump()
FaultSites == {"none", "parse", "log", "ret", "dump"}
Whats == {"std::bad_alloc", "basic_string::_M_create"}
Faults == {[site |-> "none", what |-> ""]}
          \cup {[site |-> s, what |-> w] : s \in FaultSites \ {"none"}, w \in Whats}
NoFault == [site |-> "none", what |-> ""]

\* the base amount with every trip charged for at least one kilometre
BaseAmountMinimumKm(cfg, request) ==
    RAdd(RAdd(cfg.base_price,
              RMul(Rat(IF request.distanceM < 1000 THEN 1000 ELSE request.distanceM,
                       1000),
                   cfg.price_per_km)),
         RMul(Rat(request.etaSec, 60), cfg.price_per_minute))

\* base amount of calculatePrice (main.cpp 69-77)
BaseAmount(cfg, request) ==
    RAdd(RAdd(cfg.base_price,
              RMul(Rat(request.distanceM, 1000), cfg.price_per_km)),
         RMul(Rat(request.etaSec, 60), cfg.price_per_minute))

\* the price calculatePrice computes (main.cpp 69-89)
ComputePrice(cfg, request, demandCoeff) ==
    Round(RMul(RMul(BaseAmount(cfg, request),
                    GetClassMultiplier(request.vehicleClass)),
               demandCoeff))

\* an error envelope that keeps a data object beside the error
ErrorEnvelopeWithData(code, message, traceId) ==
    [data    |-> [type |-> "object", price |-> 0, currency |-> "RUB"],
     error   |-> [type |-> "object", code |-> code, message |-> message],
     traceId |-> traceId]

\* the {data, error, traceId} envelope of an error (main.cpp 113-120, 262-269)
ErrorEnvelope(code, message, traceId) ==
    [data    |-> JNull,
     error   |-> [type |-> "object", code |-> code, message |-> message],
     traceId |-> traceId]

\* the envelope of a success (main.cpp 94-108)
SuccessEnvelope(cfg, request, demandCoeff, traceId) ==
    [data    |-> [type      |-> "object",
                  price     |-> ComputePrice(cfg, request, demandCoeff),
                  currency  |-> "RUB",
                  breakdown |->
                    [base            |-> cfg.base_price,
                     distance        |-> Round(RMul(Rat(request.distanceM, 1000),
                                                    cfg.price_per_km)),
                     time            |-> Round(RMul(Rat(request.etaSec, 60),
                                                    cfg.price_per_minute)),
                     classMultiplier |-> GetClassMultiplier(request.vehicleClass),
                     demandCoeff     |-> Rat(Round(RMul(demandCoeff, RInt(100))),
                                             100)]],
     error   |-> JNull,
     traceId |-> traceId]

\* calculatePrice keeping the distance of the earlier calls: the trip is
\* priced for the distances accumulated so far
CalculatePriceAccumulating(cfg, g, request, traceId, fault) ==
    LET sum == [request EXCEPT !.distanceM = @ * (g.idx + 1)]
    IN  [json   |-> IF fault.site \in {"log", "ret"}
                    THEN ErrorEnvelope("PRICE_CALCULATION_FAILED", fault.what, traceId)
                    ELSE SuccessEnvelope(cfg, sum, DemandDraw(cfg, g), traceId),
         rng    |-> [g EXCEPT !.idx = g.idx + 1],
         logged |-> IF fault.site = "log" THEN 0 ELSE 1,
         demand |-> DemandDraw(cfg, g)]

\* calculatePrice constructing and seeding its generator in the call: every
\* call draws the first value of a new sequence
CalculatePriceReseeding(cfg, g, request, traceId, fault) ==
    LET fresh == [seed |-> (g.seed + 1) % (MaxSeed + 1), idx |-> 0]
    IN  [json   |-> IF fault.site \in {"log", "ret"}
                    THEN ErrorEnvelope("PRICE_CALCULATION_FAILED", fault.what, traceId)
                    ELSE SuccessEnvelope(cfg, request, DemandDraw(cfg, fresh), traceId),
         rng    |-> fresh,
         logged |-> IF fault.site = "log" THEN 0 ELSE 1,
         demand |-> DemandDraw(cfg, fresh)]

\* PricingEngine::calculatePrice: the whole try/catch.  The demand draw
\* precedes both places an exception can come from, so the generator always
\* advances; the log line is written unless logPriceCalculation itself throws.
CalculatePrice(cfg, g, request, traceId, fault) ==
    [json   |-> IF fault.site \in {"log", "ret"}
                THEN ErrorEnvelope("PRICE_CALCULATION_FAILED", fault.what, traceId)
                ELSE SuccessEnvelope(cfg, request, DemandDraw(cfg, g), traceId),
     rng    |-> [g EXCEPT !.idx = g.idx + 1],
     logged |-> IF fault.site = "log" THEN 0 ELSE 1,
     demand |-> DemandDraw(cfg, g)]

-----------------------------------------------------------------------------
(* POST /price of the httplib service (main.cpp 247-325) *)

\* Request::get_header_value answers "" for an absent header
Headers == {"", "test-trace-123", "req-7"}

\* identifiers generateUUID may return (36 characters, never empty)
UUIDs == {"1b4e28ba-2fa1-41d2-883f-0016d3cca427",
          "6fa459ea-ee8a-4ca4-894e-db77e160355e"}

NoHeader == "<no header>"

\* request bodies, as token sequences
BodyFull == <<"{", "distanceM", ":", "5000", ",", "etaSec", ":", "600", ",",
              "class", ":", "comfort", "}">>
BodyBrace == <<"{">>
BodyEmptyObject == <<"{", "}">>
BodyNoDistance == <<"{", "etaSec", ":", "600", "}">>
BodyNoEta == <<"{", "distanceM", ":", "5000", "}">>
BodyTextDistance == <<"{", "distanceM", ":", "far", ",", "etaSec", ":", "600", "}">>
BodyZeroDistance == <<"{", "distanceM", ":", "0", ",", "etaSec", ":", "600", "}">>
BodyNegativeEta == <<"{", "distanceM", ":", "5000", ",", "etaSec", ":", "-5", "}">>
BodyLongBusiness == <<"{", "distanceM", ":", "12000", ",", "etaSec", ":", "900", ",",
                      "class", ":", "business", "}">>
BodyCut == <<"{", "distanceM", ":">>
BodyUnknownClass == <<"{", "distanceM", ":", "5000", ",", "etaSec", ":", "600", ",",
                      "class", ":", "limo", "}">>

Bodies == {BodyFull, BodyBrace, BodyEmptyObject, BodyNoDistance, BodyNoEta,
           BodyTextDistance, BodyZeroDistance, BodyNegativeEta,
           BodyLongBusiness, BodyCut, BodyUnknownClass}

\* json::parse of the stub has no throw statement: parse_error is never raised
ParseThrows(body) == FALSE

\* traceId of the handler (main.cpp 249-252)
ResolveTraceId(hdr, uuid) == IF hdr = "" THEN uuid ELSE hdr

\* an httplib::Response: status defaults to 200, set_content fills the body
Response(status, xRequestId, envelope) ==
    [status     |-> status,
     xRequestId |-> xRequestId,
     body       |-> envelope]

\* what one run of the handler leaves: the response, the generator, the
\* number of engine calls and of "Price calculated" lines
Handled(response, g, calls, logged) ==
    [res |-> response, rng |-> g, engineCalls |-> calls, logged |-> logged]

\* the POST /price lambda calling the engine before it validates the request
PostPriceHandlerEager(cfg, g, hdr, body, fault, uuid) ==
    LET traceId == ResolveTraceId(hdr, uuid)
        pr      == FromJson(Parse(body))
        calc    == CalculatePrice(cfg, g, pr, traceId, fault)
    IN  IF fault.site = "parse"
        THEN Handled(Response(500, NoHeader,
                        ErrorEnvelope("INTERNAL_ERROR", fault.what, traceId)),
                     g, 0, 0)
        ELSE IF ~pr.ok
        THEN Handled(Response(400, NoHeader,
                        ErrorEnvelope("INVALID_REQUEST", "Invalid request format",
                                      traceId)),
                     calc.rng, 1, calc.logged)
        ELSE IF fault.site = "dump"
        THEN Handled(Response(500, traceId,
                        ErrorEnvelope("INTERNAL_ERROR", fault.what, traceId)),
                     calc.rng, 1, calc.logged)
        ELSE Handled(Response(200, traceId, calc.json),
                     calc.rng, 1, calc.logged)

\* the lambda registered for POST /price, in the order of its statements
PostPriceHandler(cfg, g, hdr, body, fault, uuid) ==
    LET traceId == ResolveTraceId(hdr, uuid)
        j       == Parse(body)
        pr      == FromJson(j)
        calc    == CalculatePrice(cfg, g, pr, traceId, fault)
    IN  IF fault.site = "parse"
        THEN Handled(Response(500, NoHeader,
                        ErrorEnvelope("INTERNAL_ERROR", fault.what, traceId)),
                     g, 0, 0)
        ELSE IF ParseThrows(body)
        THEN Handled(Response(400, NoHeader,
                        ErrorEnvelope("JSON_PARSE_ERROR", "Invalid JSON format",
                                      traceId)),
                     g, 0, 0)
        ELSE IF ~pr.ok
        THEN Handled(Response(400, NoHeader,
                        ErrorEnvelope("INVALID_REQUEST", "Invalid request format",
                                      traceId)),
                     g, 0, 0)
        ELSE IF pr.distanceM <= 0 \/ pr.etaSec <= 0
        THEN Handled(Response(400, NoHeader,
                        ErrorEnvelope("INVALID_PARAMETERS",
                                      "Distance and ETA must be positive", traceId)),
                     g, 0, 0)
        ELSE IF fault.site = "dump"
        THEN Handled(Response(500, traceId,
                        ErrorEnvelope("INTERNAL_ERROR", fault.what, traceId)),
                     calc.rng, 1, calc.logged)
        ELSE Handled(Response(200, traceId, calc.json),
                     calc.rng, 1, calc.logged)

\* the lambda registered for GET /healthz (main.cpp 221-229): status stays
\* at its default 200; the timestamp member is left out
HealthzHandler ==
    Response(200, NoHeader, [status |-> "healthy", service |-> "pricing-core-cpp"])

\* a GET /readyz handler that reports a default-constructed Config
ReadyzHandlerDefaults(cfg) ==
    Response(200, NoHeader,
             [status |-> "ready",
              config |-> [basePrice      |-> RInt(DefaultBasePrice),
                          pricePerKm     |-> RInt(DefaultPricePerKm),
                          pricePerMinute |-> RInt(DefaultPricePerMinute)]])

\* the lambda registered for GET /readyz (main.cpp 232-244), which captures
\* the Config of main() by reference
ReadyzHandler(cfg) ==
    Response(200, NoHeader,
             [status |-> "ready",
              config |-> [basePrice      |-> cfg.base_price,
                          pricePerKm     |-> cfg.price_per_km,
                          pricePerMinute |-> cfg.price_per_minute]])

\* handlers_ as HttpServer::HttpServer fills it: path -> method -> handler
ConstructedHandlers ==
    ("/healthz" :> ("GET" :> "healthHandler"))
    @@ ("/readyz" :> ("GET" :> "healthHandler"))
    @@ ("/pricing" :> ("POST" :> "pricingHandler"))
    @@ ("/price" :> ("POST" :> "pricingHandler"))

\* the magadrive::HttpServer as constructed: no daemon, not running.  daemon
\* is the handle held (0: nullptr), created the number of daemons started so
\* far, stops the number of MHD_stop_daemon calls made on each handle.
ServerIdle ==
    [daemon   |-> 0,
     running  |-> FALSE,
     alive    |-> TRUE,
     created  |-> 0,
     stops    |-> [h \in 1..MaxDaemons |-> 0],
     handlers |-> ConstructedHandlers]

\* the socket PricingService as constructed with DEMAND_MULTIPLIER unset, and
\* the counter of generateTraceId before its first call
SocketIdle == [demandMultiplier |-> Rat(12, 10), counter |-> 0]

-----------------------------------------------------------------------------
(* The httplib service as a state machine *)

\* hours of the day the service is observed at: peak, plain
ServiceHours == {8, 12}

\* the requests sent: every header with every body, and every fault with two
\* of the bodies; uuid is what generateUUID returns if the handler calls it
PriceRequests ==
    {[hdr |-> h, body |-> b, fault |-> NoFault, uuid |-> u] :
        h \in Headers \ {""}, b \in Bodies, u \in {"6fa459ea-ee8a-4ca4-894e-db77e160355e"}}
    \cup {[hdr |-> "", body |-> b, fault |-> NoFault, uuid |-> u] :
            b \in Bodies, u \in UUIDs}
    \cup {[hdr |-> h, body |-> b, fault |-> f, uuid |-> u] :
            h \in {"", "test-trace-123"}, b \in {BodyFull, BodyBrace},
            f \in Faults \ {NoFault}, u \in {"1b4e28ba-2fa1-41d2-883f-0016d3cca427"}}

\* PricingEngine::PricingEngine seeds the generator from the steady clock;
\* Config::Config reads the environment
Init ==
    /\ config \in Configs
    /\ mainConfig = config
    /\ server = ServerIdle
    /\ rng \in [seed : 0..MaxSeed, idx : {0}]
    /\ hour \in ServiceHours
    /\ priceLog = 0
    /\ socket = SocketIdle
    /\ last = [op |-> "none"]

\* one POST /price request served by the httplib service
PostPrice ==
    \E r \in PriceRequests :
        \E h \in {PostPriceHandler(config, rng, r.hdr, r.body, r.fault, r.uuid)} :
            /\ rng.idx < MaxDraws
            /\ last' = [op          |-> "POST /price",
                        req         |-> r,
                        res         |-> h.res,
                        engineCalls |-> h.engineCalls,
                        \* the coefficient the generator holds for this request
                        demand      |-> DemandDraw(config, rng)]
            /\ rng' = h.rng
            /\ priceLog' = priceLog + h.logged
            /\ UNCHANGED <<mainConfig, server, config, hour, socket>>

\* one GET /healthz request served by the httplib service
GetHealthz ==
    /\ last' = [op |-> "GET /healthz", res |-> HealthzHandler]
    /\ UNCHANGED <<mainConfig, server, config, rng, hour, priceLog, socket>>

\* one GET /readyz request served by the httplib service
GetReadyz ==
    /\ last' = [op |-> "GET /readyz", res |-> ReadyzHandler(mainConfig)]
    /\ UNCHANGED <<mainConfig, server, config, rng, hour, priceLog, socket>>

Next == PostPrice \/ GetHealthz \/ GetReadyz

Spec == Init /\ [][Next]_vars

-----------------------------------------------------------------------------
(* PricingEngine::calculatePrice called directly *)

\* requests PricingEngine::calculatePrice is called with
EngineDistances == {0, 5000, 10000, 10001}
EngineEtas == {0, 600}
EngineClasses == {"economy", "comfort", "business", "premium", "xl"}
EngineRequests ==
    [distanceM : EngineDistances, etaSec : EngineEtas, vehicleClass : EngineClasses]
EngineFaults == {f \in Faults : f.site \in {"none", "log", "ret"}}

InitEngine ==
    /\ config \in Configs
    /\ mainConfig = config
    /\ server = ServerIdle
    /\ rng \in [seed : 0..MaxSeed, idx : {0}]
    /\ hour \in ServiceHours
    /\ priceLog = 0
    /\ socket = SocketIdle
    /\ last \in [op : {"call"}, request : EngineRequests, fault : EngineFaults]

\* the pending call of calculatePrice runs
CallEngine ==
    LET c == CalculatePrice(config, rng, last.request, "direct", last.fault)
    IN  /\ last.op = "call"
        /\ last' = [op      |-> "calculatePrice",
                    request |-> last.request,
                    fault   |-> last.fault,
                    demand  |-> c.demand,
                    json    |-> c.json]
        /\ rng' = c.rng
        /\ priceLog' = priceLog + c.logged
        /\ UNCHANGED <<mainConfig, server, config, hour, socket>>

NextEngine == CallEngine

SpecEngine == InitEngine /\ [][NextEngine]_vars

-----------------------------------------------------------------------------
(* magadrive::PricingEngine (pricing_engine.cpp) *)

\* long_distance_threshold_m_, in metres
LongDistanceThresholdM == 10000

\* getDistanceMultiplier comparing with < : the threshold itself is discounted
MdGetDistanceMultiplierStrict(distance_m) ==
    IF RLess(distance_m, RInt(LongDistanceThresholdM))
    THEN Rat(10, 10)
    ELSE Rat(8, 10)

\* PricingEngine::getDistanceMultiplier
MdGetDistanceMultiplier(distance_m) ==
    IF RLeq(distance_m, RInt(LongDistanceThresholdM))
    THEN Rat(10, 10)    \* base_distance_multiplier_
    ELSE Rat(8, 10)     \* long_distance_multiplier_

\* class_multipliers_ as the constructor fills it
ClassMultipliers ==
    ("COMFORT" :> Rat(10, 10)) @@ ("BUSINESS" :> Rat(18, 10)) @@ ("XL" :> Rat(25, 10))

\* getClassMultiplier without the fallback: a class outside the map reads the
\* value-initialised entry operator[] would insert
MdGetClassMultiplierNoFallback(vehicle_class) ==
    IF vehicle_class \in DOMAIN ClassMultipliers
    THEN ClassMultipliers[vehicle_class]
    ELSE Rat(0, 10)

\* PricingEngine::getClassMultiplier
MdGetClassMultiplier(vehicle_class) ==
    IF vehicle_class \in DOMAIN ClassMultipliers
    THEN ClassMultipliers[vehicle_class]
    ELSE Rat(10, 10)

\* getTimeOfDayMultiplier with both windows open at their upper end
MdGetTimeOfDayMultiplierOpen(h) ==
    IF (h >= 7 /\ h < 9) \/ (h >= 17 /\ h < 19) THEN Rat(13, 10)
    ELSE IF h >= 22 \/ h < 6 THEN Rat(12, 10)
    ELSE Rat(10, 10)

\* PricingEngine::getTimeOfDayMultiplier, of the hour localtime() reports
MdGetTimeOfDayMultiplier(h) ==
    IF (h >= 7 /\ h <= 9) \/ (h >= 17 /\ h <= 19) THEN Rat(13, 10)
    ELSE IF h >= 22 \/ h <= 6 THEN Rat(12, 10)
    ELSE Rat(10, 10)

\* PricingEngine::calculatePrice
MdCalculatePrice(request, h) ==
    LET distance_mult == MdGetDistanceMultiplier(request.distance_m)
        class_mult    == MdGetClassMultiplier(request.vehicle_class)
        time_mult     == MdGetTimeOfDayMultiplier(h)
        final_price   == RMul(RMul(RMul(RMul(RInt(request.base_price_rub),
                                             distance_mult),
                                        class_mult),
                                   request.surge_multiplier),
                              time_mult)
    IN  [final_price_rub     |-> Round(final_price),
         distance_multiplier |-> distance_mult,
         class_multiplier    |-> class_mult,
         surge_multiplier    |-> request.surge_multiplier,
         time_multiplier     |-> time_mult,
         currency            |-> "RUB"]

\* requests the engine is called with.  createPricingResponse passes
\* distance_m and base_price_rub uninitialised when the body lacks them, so
\* every value of the type can arrive, a negative base price included.
MdDistances == {RInt(0), RInt(9999), RInt(10000), Rat(20001, 2), RInt(10001),
                RInt(12000)}
MdClasses == {"COMFORT", "BUSINESS", "XL", "VehicleClass(7)"}
MdBasePrices == {100, 205, -500}
MdSurges == {Rat(10, 10), Rat(15, 10)}
MdRequests ==
    [distance_m : MdDistances, vehicle_class : MdClasses,
     base_price_rub : MdBasePrices, surge_multiplier : MdSurges]

InitMd ==
    /\ config = DefaultConfig
    /\ mainConfig = config
    /\ server = ServerIdle
    /\ rng = [seed |-> 0, idx |-> 0]
    /\ hour \in 0..23
    /\ priceLog = 0
    /\ socket = SocketIdle
    /\ last \in [op : {"md.call"}, request : MdRequests]

\* the pending call of magadrive::PricingEngine::calculatePrice runs
MdCalculate ==
    /\ last.op = "md.call"
    /\ last' = [op       |-> "md.calculatePrice",
                request  |-> last.request,
                response |-> MdCalculatePrice(last.request, hour)]
    /\ UNCHANGED <<mainConfig, server, config, rng, hour, priceLog, socket>>

NextMd == MdCalculate

SpecMd == InitMd /\ [][NextMd]_vars

-----------------------------------------------------------------------------
(* The engines called again and again: every call is recorded with what it *)
(* was given (request, time sample, demand coefficient) and what it answered *)

\* configurations of the repeated calls: the default range, a fixed coefficient
DetConfigs == {DefaultConfig,
               MakeConfig(DefaultBasePrice, <<Rat(10, 10), Rat(10, 10)>>),
               MakeConfig(DefaultBasePrice, <<Rat(1125, 1000), Rat(1125, 1000)>>)}

DetHours == {8, 12}

DetRequests ==
    {[distanceM |-> 5000, etaSec |-> 600, vehicleClass |-> "comfort"],
     [distanceM |-> 12000, etaSec |-> 900, vehicleClass |-> "business"]}

DetMdRequests ==
    {[distance_m |-> RInt(5000), vehicle_class |-> "COMFORT",
      base_price_rub |-> 205, surge_multiplier |-> Rat(10, 10)],
     [distance_m |-> RInt(12000), vehicle_class |-> "BUSINESS",
      base_price_rub |-> 205, surge_multiplier |-> Rat(15, 10)]}

InitDet ==
    /\ config \in DetConfigs
    /\ mainConfig = config
    /\ server = ServerIdle
    /\ rng \in [seed : 0..MaxSeed, idx : {0}]
    /\ hour \in DetHours
    /\ priceLog = 0
    /\ socket = SocketIdle
    /\ last \in [op : {"det.engine", "det.md"}, seen : {<<>>}]

\* one more call of PricingEngine::calculatePrice on the global engine
EngineCalculateAgain ==
    \E request \in DetRequests :
        \E c \in {CalculatePrice(config, rng, request, "direct", NoFault)} :
            /\ last.op = "det.engine"
            /\ Len(last.seen) < MaxCalls
            /\ last' = [last EXCEPT !.seen =
                          Append(@, [request |-> request,
                                     hour    |-> hour,
                                     demand  |-> c.demand,
                                     result  |-> c.json.data])]
            /\ rng' = c.rng
            /\ priceLog' = priceLog + c.logged
            /\ UNCHANGED <<mainConfig, server, config, hour, socket>>

\* one more call of magadrive::PricingEngine::calculatePrice; the demand
\* coefficient it is given is request.surge_multiplier
MdCalculateAgain ==
    \E request \in DetMdRequests :
        /\ last.op = "det.md"
        /\ Len(last.seen) < MaxCalls
        /\ last' = [last EXCEPT !.seen =
                      Append(@, [request |-> request,
                                 hour    |-> hour,
                                 demand  |-> request.surge_multiplier,
                                 result  |-> MdCalculatePrice(request, hour)])]
        /\ UNCHANGED <<mainConfig, server, config, rng, hour, priceLog, socket>>

\* the wall clock moves on to another hour
ClockTick ==
    /\ hour' \in DetHours \ {hour}
    /\ UNCHANGED <<mainConfig, server, config, rng, priceLog, socket, last>>

NextDet == EngineCalculateAgain \/ MdCalculateAgain \/ ClockTick

SpecDet == InitDet /\ [][NextDet]_vars

-----------------------------------------------------------------------------
(* The demand draw of POST /price run by the threads of the server.  The   *)
(* handler uses the global pricingEngine; demand_dist(rng) loads the state *)
(* of the generator, computes, and stores the next state, with no lock.    *)

Workers == 1..MaxWorkers

InitWorkers ==
    /\ config \in Configs
    /\ mainConfig = config
    /\ server = ServerIdle
    /\ rng \in [seed : 0..MaxSeed, idx : {0}]
    /\ hour = 12
    /\ priceLog = 0
    /\ socket = SocketIdle
    /\ last = [op     |-> "workers",
               pc     |-> [w \in Workers |-> "idle"],
               loaded |-> [w \in Workers |-> 0]]

\* worker w enters demand_dist(rng) and loads the state of the generator
BeginDraw(w) ==
    /\ last.op = "workers"
    /\ last.pc[w] = "idle"
    /\ last' = [last EXCEPT !.pc[w] = "draw", !.loaded[w] = rng.idx]
    /\ UNCHANGED <<mainConfig, server, config, rng, hour, priceLog, socket>>

\* worker w stores the next state of the generator and leaves the draw.  If
\* another worker loaded or stored the state meanwhile this is a data race:
\* the generator may be left in any state.
EndDraw(w) ==
    /\ last.op = "workers"
    /\ last.pc[w] = "draw"
    /\ \/ /\ rng.idx = last.loaded[w]
          /\ \A v \in Workers \ {w} : last.pc[v] # "draw"
          /\ rng' = [rng EXCEPT !.idx = last.loaded[w] + 1]
       \/ /\ \/ rng.idx # last.loaded[w]
             \/ \E v \in Workers \ {w} : last.pc[v] = "draw"
          /\ rng' \in [seed : {rng.seed}, idx : 0..MaxWorkers]
    /\ last' = [last EXCEPT !.pc[w] = "done"]
    /\ priceLog' = priceLog + 1
    /\ UNCHANGED <<mainConfig, server, config, hour, socket>>

NextWorkers == \E w \in Workers : BeginDraw(w) \/ EndDraw(w)

SpecWorkers == InitWorkers /\ [][NextWorkers]_vars

-----------------------------------------------------------------------------
(* The socket PricingService and HttpServer (main.cpp 352-603) *)

\* basePrices as the constructor fills it, in rubles per kilometre
BasePrices == ("comfort" :> 15) @@ ("business" :> 25) @@ ("xl" :> 35)

\* the minimal price of PricingService::calculatePrice
MinimalPrice == 100

\* the double that is not a number, which std::stod returns for the text "nan"
NaN == [n |-> 0, d |-> 0]
IsNaN(x) == x.d = 0

\* < and <= of doubles: false as soon as one side is not a number
FLess(x, y) == ~IsNaN(x) /\ ~IsNaN(y) /\ RLess(x, y)
FLeq(x, y) == ~IsNaN(x) /\ ~IsNaN(y) /\ RLeq(x, y)

\* x * y of doubles, x a number
FMul(x, y) == IF IsNaN(y) THEN NaN ELSE RMul(x, y)

\* PricingService::calculatePrice
SocketCalculatePrice(svc, vehicleClass, distanceM, etaSeconds) ==
    IF vehicleClass \notin DOMAIN BasePrices
    THEN RInt(0)
    ELSE LET price == FMul(RAdd(RMul(RInt(BasePrices[vehicleClass]),
                                     Rat(distanceM, 1000)),
                                RMul(Rat(etaSeconds, 60), RInt(2))),
                           svc.demandMultiplier)
         IN  IF FLess(price, RInt(MinimalPrice)) THEN RInt(MinimalPrice) ELSE price

\* PricingService::generateTraceId: "pricing_" << time << "_" << ++counter
GenerateTraceId(svc, now) ==
    "pricing_" \o ToString(now) \o "_" \o ToString(svc.counter + 1)

\* PricingService::generateResponse
GenerateResponse(svc, now, price) ==
    [data    |-> [type |-> "object", price |-> price, currency |-> "RUB"],
     error   |-> JNull,
     traceId |-> GenerateTraceId(svc, now)]

\* PricingService::generateErrorResponse
GenerateErrorResponse(svc, now, error, statusCode) ==
    [data    |-> JNull,
     error   |-> [type |-> "object", code |-> "PRICING_ERROR", message |-> error,
                  statusCode |-> statusCode],
     traceId |-> GenerateTraceId(svc, now)]

\* HttpServer::sendErrorResponse and sendJsonResponse: what goes to the client
SendErrorResponse(svc, now, error, statusCode) ==
    [status |-> statusCode, body |-> GenerateErrorResponse(svc, now, error, statusCode)]

\* HttpServer::handlePricingRequest.  blank: the request text holds the empty
\* line that ends the headers; fault: an exception leaves the try block.
HandlePricingRequest(svc, now, request) ==
    LET requestData  == Parse(request.body)
        distanceM    == requestData.fields["distanceM"].num
        etaSeconds   == requestData.fields["etaSec"].num
        vehicleClass == requestData.fields["class"].str
        price        == SocketCalculatePrice(svc, vehicleClass, distanceM, etaSeconds)
    IN  IF ~request.blank
        THEN SendErrorResponse(svc, now, "Invalid request format", 400)
        ELSE IF request.fault
        THEN SendErrorResponse(svc, now, "Internal server error", 500)
        ELSE IF ParseThrows(request.body)
        THEN SendErrorResponse(svc, now, "Invalid JSON", 400)
        ELSE IF \/ ~Contains(requestData, "distanceM")
                \/ ~Contains(requestData, "etaSec")
                \/ ~Contains(requestData, "class")
        THEN SendErrorResponse(svc, now, "Missing required fields", 400)
        ELSE IF distanceM <= 0 \/ etaSeconds <= 0
        THEN SendErrorResponse(svc, now, "Invalid distance or ETA", 400)
        ELSE IF FLeq(price, RInt(0))
        THEN SendErrorResponse(svc, now, "Invalid vehicle class", 400)
        ELSE [status |-> 200, body |-> GenerateResponse(svc, now, price)]

\* seconds since the epoch std::time reports
Times == {1767225600}

\* what std::stod makes of the values DEMAND_MULTIPLIER may carry in the
\* environment ("nan" among them); the first is the default
DemandMultiplierEnv == {Rat(12, 10), Rat(10, 10), Rat(14, 10), RInt(-1), NaN}

\* arguments of direct calls of calculatePrice
SocketClasses == {"comfort", "business", "xl", "limo"}
SocketDistances == {0, 1, 5000, 100000}
SocketEtas == {0, 600}

\* POST /price requests sent to the socket service
SocketPriceRequests ==
    {[hdr |-> h, blank |-> TRUE, body |-> b, fault |-> FALSE] :
        h \in {"", "test-trace-123"}, b \in Bodies}
    \cup {[hdr |-> h, blank |-> bl, body |-> BodyFull, fault |-> f] :
            h \in {"", "test-trace-123"}, bl \in BOOLEAN, f \in BOOLEAN}

InitSocket ==
    /\ config = DefaultConfig
    /\ mainConfig = config
    /\ server = ServerIdle
    /\ rng = [seed |-> 0, idx |-> 0]
    /\ hour = 12
    /\ priceLog = 0
    /\ socket \in [demandMultiplier : DemandMultiplierEnv, counter : {0}]
    /\ last = [op |-> "none"]

\* one POST /price request served by the socket service
SocketPostPrice ==
    \E request \in SocketPriceRequests, now \in Times :
        /\ socket.counter < MaxTraceIds
        /\ last' = [op  |-> "socket POST /price",
                    req |-> request,
                    res |-> HandlePricingRequest(socket, now, request)]
        /\ socket' = [socket EXCEPT !.counter = socket.counter + 1]
        /\ UNCHANGED <<mainConfig, server, config, rng, hour, priceLog>>

\* pricingService.calculatePrice(vehicleClass, distanceM, etaSeconds)
SocketCalculatePriceCall ==
    \E vehicleClass \in SocketClasses, distanceM \in SocketDistances,
       etaSeconds \in SocketEtas :
        /\ last' = [op           |-> "socket calculatePrice",
                    vehicleClass |-> vehicleClass,
                    distanceM    |-> distanceM,
                    etaSeconds   |-> etaSeconds,
                    price        |-> SocketCalculatePrice(socket, vehicleClass,
                                                          distanceM, etaSeconds)]
        /\ UNCHANGED <<mainConfig, server, config, rng, hour, priceLog, socket>>

NextSocket == SocketPostPrice \/ SocketCalculatePriceCall

SpecSocket == InitSocket /\ [][NextSocket]_vars

-----------------------------------------------------------------------------
(* The POST /price handlers statement by statement (main.cpp 247-325, 471-547) *)

\* the trace id of a handler that has not resolved one yet
Unresolved == "<unresolved>"

\* a PriceRequest before fromJson filled it
NoPriceRequest == [ok |-> FALSE, distanceM |-> 0, etaSec |-> 0, vehicleClass |-> ""]

\* a handler entered with request r: nothing parsed, nothing computed, no
\* content set.  trail lists the stages the handler went through so far.
Entered(service, r, g, pc) ==
    [op          |-> "handler",
     service     |-> service,
     pc          |-> pc,
     req         |-> r,
     rng0        |-> g,
     routed      |-> FALSE,
     traceId     |-> Unresolved,
     j           |-> JNull,
     pr          |-> NoPriceRequest,
     json        |-> JNull,
     price       |-> RInt(0),
     engineCalls |-> 0,
     contentSet  |-> 0,
     res         |-> [status |-> 200, xRequestId |-> NoHeader, body |-> JNull],
     exc         |-> "",
     trail       |-> <<>>]

\* no request served yet
HandlerIdle == Entered("none", [hdr |-> ""], [seed |-> 0, idx |-> 0], "idle")

\* res.status = status; res.set_content(envelope.dump(), ...); return
SetContent(l, status, envelope) ==
    [l EXCEPT !.res        = [status |-> status, xRequestId |-> l.res.xRequestId,
                              body |-> envelope],
              !.contentSet = @ + 1,
              !.pc         = "done",
              !.trail      = Append(@, "respond")]

\* httplib::Server calls the lambda registered for POST /price
HandlerEnter ==
    \E r \in PriceRequests :
        /\ last.pc \in {"idle", "done"}
        /\ rng.idx < MaxDraws
        /\ last' = [Entered("httplib", r, rng, "traceId") EXCEPT !.routed = TRUE]
        /\ UNCHANGED <<mainConfig, server, config, rng, hour, priceLog, socket>>

\* main.cpp 249-254: the header value, or a generated UUID when it is empty
HandlerTraceId ==
    /\ last.service = "httplib" /\ last.pc = "traceId"
    /\ last' = [last EXCEPT !.traceId = ResolveTraceId(last.req.hdr, last.req.uuid),
                            !.pc      = "parse",
                            !.trail   = Append(@, "traceId")]
    /\ UNCHANGED <<mainConfig, server, config, rng, hour, priceLog, socket>>

\* main.cpp 258: json::parse(req.body); an exception leaves the try block
HandlerParse ==
    /\ last.service = "httplib" /\ last.pc = "parse"
    /\ last' = IF last.req.fault.site = "parse"
               THEN [last EXCEPT !.exc = last.req.fault.what, !.pc = "catch",
                                 !.trail = Append(@, "parse")]
               ELSE IF ParseThrows(last.req.body)
               THEN [last EXCEPT !.exc = "parse_error", !.pc = "catch",
                                 !.trail = Append(@, "parse")]
               ELSE [last EXCEPT !.j = Parse(last.req.body), !.pc = "fromJson",
                                 !.trail = Append(@, "parse")]
    /\ UNCHANGED <<mainConfig, server, config, rng, hour, priceLog, socket>>

\* a fromJson branch that returns after setting the status only
HandlerFromJsonSilent ==
    /\ last.service = "httplib" /\ last.pc = "fromJson"
    /\ \E pr \in {FromJson(last.j)} :
          last' = IF ~pr.ok
                  THEN [last EXCEPT !.res.status = 400, !.pc = "done",
                                    !.trail = @ \o <<"fields", "respond">>]
                  ELSE [last EXCEPT !.pr = pr, !.pc = "positive",
                                    !.trail = Append(@, "fields")]
    /\ UNCHANGED <<mainConfig, server, config, rng, hour, priceLog, socket>>

\* main.cpp 259-274: fromJson, and the INVALID_REQUEST return
HandlerFromJson ==
    /\ last.service = "httplib" /\ last.pc = "fromJson"
    /\ \E pr \in {FromJson(last.j)} :
          last' = IF ~pr.ok
                  THEN SetContent([last EXCEPT !.trail = Append(@, "fields")], 400,
                                  ErrorEnvelope("INVALID_REQUEST",
                                                "Invalid request format", last.traceId))
                  ELSE [last EXCEPT !.pr = pr, !.pc = "positive",
                                    !.trail = Append(@, "fields")]
    /\ UNCHANGED <<mainConfig, server, config, rng, hour, priceLog, socket>>

\* main.cpp 277-290: the positivity test, and the INVALID_PARAMETERS return
HandlerPositive ==
    /\ last.service = "httplib" /\ last.pc = "positive"
    /\ last' = IF last.pr.distanceM <= 0 \/ last.pr.etaSec <= 0
               THEN SetContent([last EXCEPT !.trail = Append(@, "positive")], 400,
                               ErrorEnvelope("INVALID_PARAMETERS",
                                             "Distance and ETA must be positive",
                                             last.traceId))
               ELSE [last EXCEPT !.pc = "engine", !.trail = Append(@, "positive")]
    /\ UNCHANGED <<mainConfig, server, config, rng, hour, priceLog, socket>>

\* main.cpp 293: pricingEngine.calculatePrice(priceRequest, traceId)
HandlerCalculatePrice ==
    /\ last.service = "httplib" /\ last.pc = "engine"
    /\ \E calc \in {CalculatePrice(config, rng, last.pr, last.traceId, last.req.fault)} :
          /\ rng' = calc.rng
          /\ priceLog' = priceLog + calc.logged
          /\ last' = [last EXCEPT !.json = calc.json, !.engineCalls = @ + 1,
                                  !.pc = "setContent",
                                  !.trail = Append(@, "engine")]
    /\ UNCHANGED <<mainConfig, server, config, hour, socket>>

\* main.cpp 296-297: set_header, then set_content(priceResponse.dump(), ...)
HandlerSetContent ==
    /\ last.service = "httplib" /\ last.pc = "setContent"
    /\ last' = IF last.req.fault.site = "dump"
               THEN [last EXCEPT !.res.xRequestId = last.traceId,
                                 !.exc = last.req.fault.what, !.pc = "catch"]
               ELSE SetContent([last EXCEPT !.res.xRequestId = last.traceId],
                               200, last.json)
    /\ UNCHANGED <<mainConfig, server, config, rng, hour, priceLog, socket>>

\* main.cpp 299-324: the two catch clauses
HandlerCatch ==
    /\ last.service = "httplib" /\ last.pc = "catch"
    /\ last' = IF last.exc = "parse_error"
               THEN SetContent(last, 400,
                               ErrorEnvelope("JSON_PARSE_ERROR", "Invalid JSON format",
                                             last.traceId))
               ELSE SetContent(last, 500,
                               ErrorEnvelope("INTERNAL_ERROR", last.exc, last.traceId))
    /\ UNCHANGED <<mainConfig, server, config, rng, hour, priceLog, socket>>

\* connections the socket service accepts: POST /price requests, and one on
\* which recv reads nothing
SocketConnections ==
    {[hdr |-> r.hdr, blank |-> r.blank, body |-> r.body, fault |-> r.fault,
      received |-> TRUE] : r \in SocketPriceRequests}
    \cup {[hdr |-> "", blank |-> TRUE, body |-> BodyFull, fault |-> FALSE,
           received |-> FALSE]}

\* sendErrorResponse / sendJsonResponse: the response text is generated, which
\* stamps a new trace id, and sent
SocketSent(l, response) ==
    [l EXCEPT !.res        = response,
              !.traceId    = response.body.traceId,
              !.contentSet = @ + 1,
              !.pc         = "done",
              !.trail      = @ \o <<"traceId", "respond">>]

\* HttpServer::run: accept, then handleRequest(clientSocket)
SocketAccept ==
    \E r \in SocketConnections :
        /\ last.pc \in {"idle", "done"}
        /\ socket.counter < MaxTraceIds
        /\ last' = Entered("socket", r, rng, "recv")
        /\ UNCHANGED <<mainConfig, server, config, rng, hour, priceLog, socket>>

\* main.cpp 471-497: recv, and the routing of POST /price
SocketRecv ==
    /\ last.service = "socket" /\ last.pc = "recv"
    /\ last' = IF ~last.req.received
               THEN [last EXCEPT !.pc = "done"]
               ELSE [last EXCEPT !.routed = TRUE, !.pc = "body"]
    /\ UNCHANGED <<mainConfig, server, config, rng, hour, priceLog, socket>>

\* main.cpp 502-507: the body starts after the empty line
SocketBody ==
    /\ last.service = "socket" /\ last.pc = "body"
    /\ \E now \in Times :
          IF ~last.req.blank
          THEN /\ last' = SocketSent(last, SendErrorResponse(socket, now,
                                               "Invalid request format", 400))
               /\ socket' = [socket EXCEPT !.counter = @ + 1]
          ELSE /\ last' = [last EXCEPT !.pc = "parse"]
               /\ UNCHANGED socket
    /\ UNCHANGED <<mainConfig, server, config, rng, hour, priceLog>>

\* main.cpp 509-510: json::parse(body); an exception leaves the try block
SocketParse ==
    /\ last.service = "socket" /\ last.pc = "parse"
    /\ last' = IF last.req.fault
               THEN [last EXCEPT !.exc = "std::exception", !.pc = "catch",
                                 !.trail = Append(@, "parse")]
               ELSE IF ParseThrows(last.req.body)
               THEN [last EXCEPT !.exc = "json::exception", !.pc = "catch",
                                 !.trail = Append(@, "parse")]
               ELSE [last EXCEPT !.j = Parse(last.req.body), !.pc = "contains",
                                 !.trail = Append(@, "parse")]
    /\ UNCHANGED <<mainConfig, server, config, rng, hour, priceLog, socket>>

\* main.cpp 512-522: the three required fields
SocketContains ==
    /\ last.service = "socket" /\ last.pc = "contains"
    /\ \E now \in Times :
          IF \/ ~Contains(last.j, "distanceM")
             \/ ~Contains(last.j, "etaSec")
             \/ ~Contains(last.j, "class")
          THEN /\ last' = SocketSent([last EXCEPT !.trail = Append(@, "fields")],
                                     SendErrorResponse(socket, now,
                                                       "Missing required fields", 400))
               /\ socket' = [socket EXCEPT !.counter = @ + 1]
          ELSE /\ last' = [last EXCEPT
                              !.pr = [ok           |-> TRUE,
                                      distanceM    |-> last.j.fields["distanceM"].num,
                                      etaSec       |-> last.j.fields["etaSec"].num,
                                      vehicleClass |-> last.j.fields["class"].str],
                              !.pc = "positive",
                              !.trail = Append(@, "fields")]
               /\ UNCHANGED socket
    /\ UNCHANGED <<mainConfig, server, config, rng, hour, priceLog>>

\* main.cpp 524-528: distance and ETA must be positive
SocketPositive ==
    /\ last.service = "socket" /\ last.pc = "positive"
    /\ \E now \in Times :
          IF last.pr.distanceM <= 0 \/ last.pr.etaSec <= 0
          THEN /\ last' = SocketSent([last EXCEPT !.trail = Append(@, "positive")],
                                     SendErrorResponse(socket, now,
                                                       "Invalid distance or ETA", 400))
               /\ socket' = [socket EXCEPT !.counter = @ + 1]
          ELSE /\ last' = [last EXCEPT !.pc = "engine",
                                       !.trail = Append(@, "positive")]
               /\ UNCHANGED socket
    /\ UNCHANGED <<mainConfig, server, config, rng, hour, priceLog>>

\* main.cpp 531: pricingService.calculatePrice(vehicleClass, distanceM, etaSeconds)
SocketCalculate ==
    /\ last.service = "socket" /\ last.pc = "engine"
    /\ last' = [last EXCEPT
                   !.price = SocketCalculatePrice(socket, last.pr.vehicleClass,
                                                  last.pr.distanceM, last.pr.etaSec),
                   !.engineCalls = @ + 1,
                   !.pc = "send",
                   !.trail = Append(@, "engine")]
    /\ UNCHANGED <<mainConfig, server, config, rng, hour, priceLog, socket>>

\* main.cpp 533-540: the unknown-class answer, or the success response
SocketSend ==
    /\ last.service = "socket" /\ last.pc = "send"
    /\ \E now \in Times :
          last' = IF FLeq(last.price, RInt(0))
                  THEN SocketSent(last, SendErrorResponse(socket, now,
                                            "Invalid vehicle class", 400))
                  ELSE SocketSent(last, [status |-> 200,
                                         body |-> GenerateResponse(socket, now,
                                                                   last.price)])
    /\ socket' = [socket EXCEPT !.counter = @ + 1]
    /\ UNCHANGED <<mainConfig, server, config, rng, hour, priceLog>>

\* main.cpp 542-546: the two catch clauses
SocketCatch ==
    /\ last.service = "socket" /\ last.pc = "catch"
    /\ \E now \in Times :
          last' = IF last.exc = "json::exception"
                  THEN SocketSent(last, SendErrorResponse(socket, now,
                                            "Invalid JSON", 400))
                  ELSE SocketSent(last, SendErrorResponse(socket, now,
                                            "Internal server error", 500))
    /\ socket' = [socket EXCEPT !.counter = @ + 1]
    /\ UNCHANGED <<mainConfig, server, config, rng, hour, priceLog>>

\* both services constructed with the default environment, no request yet
InitSteps ==
    /\ config = DefaultConfig
    /\ mainConfig = config
    /\ server = ServerIdle
    /\ rng = [seed |-> 0, idx |-> 0]
    /\ hour = 12
    /\ priceLog = 0
    /\ socket = SocketIdle
    /\ last = HandlerIdle

NextSteps ==
    \/ HandlerEnter \/ HandlerTraceId \/ HandlerParse \/ HandlerFromJson
    \/ HandlerPositive \/ HandlerCalculatePrice \/ HandlerSetContent
    \/ HandlerCatch
    \/ SocketAccept \/ SocketRecv \/ SocketBody \/ SocketParse \/ SocketContains
    \/ SocketPositive \/ SocketCalculate \/ SocketSend \/ SocketCatch

SpecSteps == InitSteps /\ [][NextSteps]_vars

-----------------------------------------------------------------------------
(* magadrive::HttpServer over libmicrohttpd (vendor/httplib.h 425-638) *)

\* HttpServer::registerHandler: handlers_[path][method] = handler
MdRegisterHandler(s, path, method, handler) ==
    [s EXCEPT !.handlers =
        IF path \in DOMAIN s.handlers
        THEN [s.handlers EXCEPT ![path] = (method :> handler) @@ @]
        ELSE (path :> (method :> handler)) @@ s.handlers]

\* HttpServer::start.  started: MHD_start_daemon returned a daemon; the
\* handle of the n-th daemon created is n.
MdStart(s, started) ==
    IF s.running
    THEN [server |-> s, ret |-> TRUE]
    ELSE IF started
    THEN [server |-> [s EXCEPT !.daemon = s.created + 1, !.created = @ + 1,
                               !.running = TRUE],
          ret    |-> TRUE]
    ELSE [server |-> [s EXCEPT !.daemon = 0], ret |-> FALSE]

\* a stop() that leaves daemon_ as it is
MdStopKeepingHandle(s) ==
    IF s.daemon # 0
    THEN [s EXCEPT !.stops[s.daemon] = @ + 1, !.running = FALSE]
    ELSE [s EXCEPT !.running = FALSE]

\* HttpServer::stop
MdStop(s) ==
    IF s.daemon # 0
    THEN [s EXCEPT !.stops[s.daemon] = @ + 1, !.daemon = 0, !.running = FALSE]
    ELSE [s EXCEPT !.running = FALSE]

\* HttpServer::createResponse: the text of a whole HTTP message, its status
\* line included
MdCreateResponse(content, status_code) ==
    [statusLine |-> "HTTP/1.1 " \o ToString(status_code) \o " OK",
     content    |-> content]

\* what healthHandler and pricingHandler return: the JSON text alone
MdHandlerText(handler) ==
    [statusLine |-> "",
     content    |-> IF handler = "healthHandler"
                    THEN "createHealthResponse()" ELSE "createPricingResponse({})"]

\* HttpServer::handleRequest: the text to send and the handler called
MdHandleRequest(s, url, method) ==
    IF url \notin DOMAIN s.handlers
    THEN [text |-> MdCreateResponse("{\"error\": \"Not found\"}", 404),
          invoked |-> "none"]
    ELSE IF method \notin DOMAIN s.handlers[url]
    THEN [text |-> MdCreateResponse("{\"error\": \"Method not allowed\"}", 405),
          invoked |-> "none"]
    ELSE [text |-> MdHandlerText(s.handlers[url][method]),
          invoked |-> s.handlers[url][method]]

\* the status code requestCallback passes to MHD_queue_response
MHD_HTTP_OK == 200

\* what a call on the server leaves in last
ServerCall(call, before, ret) ==
    [op |-> "server", call |-> call, before |-> before, ret |-> ret]

\* paths and methods of the requests sent, and the handlers registered later
MdUrls == {"/healthz", "/readyz", "/price", "/pricing", "/metrics", "/"}
MdMethods == {"GET", "POST", "DELETE"}
MdRegistrations == {<<"/metrics", "GET", "healthHandler">>,
                    <<"/price", "GET", "healthHandler">>}

\* HttpServer server(port) of main (part_006 34-35)
InitServer ==
    /\ config = DefaultConfig
    /\ mainConfig = config
    /\ server = ServerIdle
    /\ rng = [seed |-> 0, idx |-> 0]
    /\ hour = 12
    /\ priceLog = 0
    /\ socket = SocketIdle
    /\ last = ServerCall("HttpServer", ServerIdle, TRUE)

\* server.start()
ServerStart ==
    \E started \in BOOLEAN :
        \E r \in {MdStart(server, started)} :
            /\ server.alive
            /\ r.server.created <= MaxDaemons
            /\ server' = r.server
            /\ last' = ServerCall("start", server, r.ret)
            /\ UNCHANGED <<mainConfig, config, rng, hour, priceLog, socket>>

\* server.stop()
ServerStop ==
    /\ server.alive
    /\ server' = MdStop(server)
    /\ last' = ServerCall("stop", server, TRUE)
    /\ UNCHANGED <<mainConfig, config, rng, hour, priceLog, socket>>

\* ~HttpServer: stop(), and the object is gone
ServerDestroy ==
    /\ server.alive
    /\ server' = [MdStop(server) EXCEPT !.alive = FALSE]
    /\ last' = ServerCall("~HttpServer", server, TRUE)
    /\ UNCHANGED <<mainConfig, config, rng, hour, priceLog, socket>>

\* signalHandler (part_006 10-16): g_server->stop(), then exit(signum), which
\* does not run the destructor of main's server
ServerSignal ==
    /\ server.alive
    /\ server' = [MdStop(server) EXCEPT !.alive = FALSE]
    /\ last' = ServerCall("signalHandler", server, TRUE)
    /\ UNCHANGED <<mainConfig, config, rng, hour, priceLog, socket>>

\* server.registerHandler(path, method, handler)
ServerRegister ==
    \E reg \in MdRegistrations :
        /\ server.alive
        /\ server' = MdRegisterHandler(server, reg[1], reg[2], reg[3])
        /\ last' = ServerCall("registerHandler", server, TRUE)
        /\ UNCHANGED <<mainConfig, config, rng, hour, priceLog, socket>>

\* HttpServer::requestCallback, second call for a connection (the first only
\* sets *con_cls): handleRequest, then the text is queued as the body of a
\* response with MHD_HTTP_OK.  A handler calls a member function through a
\* null pointer: it returns its text or the process ends.  created: whether
\* MHD_create_response_from_buffer returned a response.
ServerRequest ==
    \E url \in MdUrls, method \in MdMethods, returns \in BOOLEAN, created \in BOOLEAN :
        \E h \in {MdHandleRequest(server, url, method)} :
            /\ server.alive /\ server.running
            /\ h.invoked = "none" => returns
            /\ ~returns => ~created
            /\ last' = ServerCall("requestCallback", server, returns /\ created)
                           @@ [url     |-> url,
                               method  |-> method,
                               invoked |-> h.invoked,
                               queued  |-> returns /\ created,
                               status  |-> IF returns /\ created THEN MHD_HTTP_OK ELSE 0,
                               body    |-> h.text]
            /\ server' = [server EXCEPT !.alive = returns]
            /\ UNCHANGED <<mainConfig, config, rng, hour, priceLog, socket>>

NextServer ==
    \/ ServerStart \/ ServerStop \/ ServerDestroy \/ ServerSignal
    \/ ServerRegister \/ ServerRequest

SpecServer == InitServer /\ [][NextServer]_vars

-----------------------------------------------------------------------------
(* Reading a request body as the JSON text it is *)

IsNumberToken(t) == t \in DOMAIN NumLit
IsStringToken(t) == t \notin Punct /\ ~IsNumberToken(t)

\* positions of the keys of a flat object { k : v , k : v }
KeyPositions(body) == {i \in DOMAIN body : i % 4 = 2 /\ i + 2 <= Len(body)}

\* the text is a well-formed JSON object of scalar members
WellFormed(body) ==
    /\ Len(body) >= 2
    /\ body[1] = "{"
    /\ body[Len(body)] = "}"
    /\ Len(body) = 2 \/ Len(body) % 4 = 1
    /\ \A i \in 2..(Len(body) - 1) :
          CASE i % 4 = 2 -> IsStringToken(body[i])
            [] i % 4 = 3 -> body[i] = ":"
            [] i % 4 = 0 -> body[i] \notin Punct
            [] OTHER     -> body[i] = ","

HasMember(body, key) == \E i \in KeyPositions(body) : body[i] = key
MemberToken(body, key) ==
    body[(CHOOSE i \in KeyPositions(body) : body[i] = key) + 2]
HasNumber(body, key) ==
    HasMember(body, key) /\ IsNumberToken(MemberToken(body, key))
NumberOf(body, key) == NumLit[MemberToken(body, key)]

\* the text is a request that passes validation: both numbers, both positive
ValidBody(body) ==
    /\ WellFormed(body)
    /\ HasNumber(body, "distanceM") /\ NumberOf(body, "distanceM") > 0
    /\ HasNumber(body, "etaSec") /\ NumberOf(body, "etaSec") > 0

-----------------------------------------------------------------------------
(* Claims about POST /price of the httplib service *)

IsPrice == last.op = "POST /price"
Faultless == last.req.fault = NoFault
ErrorCode == last.res.body.error.code
IsError == last.res.body.error # JNull

\* C1: every response of POST /price is an envelope {data, error, traceId} in
\* which exactly one of data and error is non-null, and a response that
\* carries a price carries no error.
C1_Envelope ==
    IsPrice =>
        LET b == last.res.body
        IN  /\ DOMAIN b = {"data", "error", "traceId"}
            /\ (b.data = JNull) # (b.error = JNull)
            /\ b.data # JNull => "price" \in DOMAIN b.data /\ b.error = JNull
            /\ b.error # JNull => "code" \in DOMAIN b.error /\ b.data = JNull

\* the engine failed inside calculatePrice and answered its own error envelope
C1_Witness ==
    /\ IsPrice
    /\ last.engineCalls = 1
    /\ IsError
    /\ ErrorCode = "PRICE_CALCULATION_FAILED"

\* C3: the X-Request-Id response header of every POST /price response, error
\* responses included, is the traceId of its envelope.
C3_HeaderEchoed ==
    IsPrice => last.res.xRequestId = last.res.body.traceId

\* C4: a body that is not well-formed JSON is answered 400 JSON_PARSE_ERROR.
C4_MalformedBody ==
    IsPrice /\ Faultless /\ ~WellFormed(last.req.body) =>
        /\ last.res.status = 400
        /\ IsError
        /\ ErrorCode = "JSON_PARSE_ERROR"

\* C5: a well-formed body without a numeric distanceM or etaSec is answered
\* 400 INVALID_REQUEST and the engine is not called.
C5_MissingField ==
    IsPrice /\ Faultless /\ WellFormed(last.req.body)
            /\ (~HasNumber(last.req.body, "distanceM")
                \/ ~HasNumber(last.req.body, "etaSec")) =>
        /\ last.res.status = 400
        /\ IsError
        /\ ErrorCode = "INVALID_REQUEST"
        /\ last.engineCalls = 0

\* C6: a request with distanceM <= 0 or etaSec <= 0 is answered 400
\* INVALID_PARAMETERS and the engine is not called.
C6_NonPositive ==
    IsPrice /\ Faultless /\ WellFormed(last.req.body)
            /\ HasNumber(last.req.body, "distanceM")
            /\ HasNumber(last.req.body, "etaSec")
            /\ (NumberOf(last.req.body, "distanceM") <= 0
                \/ NumberOf(last.req.body, "etaSec") <= 0) =>
        /\ last.res.status = 400
        /\ IsError
        /\ ErrorCode = "INVALID_PARAMETERS"
        /\ last.engineCalls = 0

\* C7: the status follows the error code: 500 for INTERNAL_ERROR and
\* PRICE_CALCULATION_FAILED, 400 for every other code, 200 only without error.
C7_StatusOfCode ==
    IsPrice =>
        /\ IsError /\ ErrorCode \in {"INTERNAL_ERROR", "PRICE_CALCULATION_FAILED"}
              => last.res.status = 500
        /\ IsError /\ ErrorCode \notin {"INTERNAL_ERROR", "PRICE_CALCULATION_FAILED"}
              => last.res.status = 400
        /\ last.res.status = 200 => ~IsError

\* C8: the price of every request that passed validation is a non-negative
\* integer within the range of int.
C8_NonNegativePrice ==
    IsPrice /\ ~IsError /\ ValidBody(last.req.body) =>
        /\ last.res.body.data.price \in Int
        /\ last.res.body.data.price >= 0
        /\ last.res.body.data.price <= 2147483647

\* C9: price = round(base_amount * class_mult * distance_mult * time_mult *
\* demand_mult) with base_amount = base_price + km * price_per_km + min *
\* price_per_minute.
C9_Formula ==
    IsPrice /\ ~IsError /\ ValidBody(last.req.body) =>
        LET request == FromJson(Parse(last.req.body))
        IN  last.res.body.data.price =
              Round(RMul(RMul(RMul(RMul(BaseAmount(config, request),
                                        GetClassMultiplier(request.vehicleClass)),
                                   MdGetDistanceMultiplier(RInt(request.distanceM))),
                              MdGetTimeOfDayMultiplier(hour)),
                         last.demand))

-----------------------------------------------------------------------------
(* Claims about the socket service *)

IsSocketPrice == last.op = "socket POST /price"

\* C2: the envelope of every POST /price response carries a non-empty traceId,
\* equal to the X-Request-Id header of the request when that is non-empty.
C2_TraceId ==
    /\ IsPrice =>
          /\ last.res.body.traceId # ""
          /\ last.req.hdr # "" => last.res.body.traceId = last.req.hdr
          /\ last.req.hdr = "" => last.res.body.traceId = last.req.uuid
    /\ IsSocketPrice =>
          /\ last.res.body.traceId # ""
          /\ last.req.hdr # "" => last.res.body.traceId = last.req.hdr

-----------------------------------------------------------------------------
(* Claims about magadrive::PricingEngine *)

IsMdPrice == last.op = "md.calculatePrice"

\* C10: the distance multiplier is 1.0 for every distance up to and including
\* the threshold of 10000 m, 0.8 for every distance above it, nothing else.
C10_DistanceStep ==
    IsMdPrice =>
        LET d == last.request.distance_m
            m == last.response.distance_multiplier
        IN  /\ d.n <= 10000 * d.d => m = [n |-> 1, d |-> 1]
            /\ d.n > 10000 * d.d => m = [n |-> 4, d |-> 5]
            /\ m \in {[n |-> 1, d |-> 1], [n |-> 4, d |-> 5]}

\* a trip of exactly the threshold was priced
C10_Witness ==
    /\ IsMdPrice
    /\ last.request.distance_m = [n |-> 10000, d |-> 1]
    /\ last.response.distance_multiplier = [n |-> 1, d |-> 1]

\* C13: for every hour 0..23 the time-of-day multiplier is 1.3 exactly in the
\* inclusive windows 7..9 and 17..19, 1.2 exactly in 22..23 and 0..6, and 1.0
\* in every other hour (10..16, 20..21).
C13_TimeWindows ==
    IsMdPrice =>
        LET m == last.response.time_multiplier
        IN  /\ hour \in 0..23
            /\ m = [n |-> 13, d |-> 10] <=> hour \in {7, 8, 9, 17, 18, 19}
            /\ m = [n |-> 6, d |-> 5] <=> hour \in {22, 23, 0, 1, 2, 3, 4, 5, 6}
            /\ m = [n |-> 1, d |-> 1] <=> hour \in {10, 11, 12, 13, 14, 15, 16, 20, 21}

\* a trip was priced at 6, the last hour of the night window
C13_Witness ==
    /\ IsMdPrice
    /\ hour = 6
    /\ last.response.time_multiplier = [n |-> 6, d |-> 5]

-----------------------------------------------------------------------------
(* Claims about the class multiplier *)

IsEngineCall == last.op = "calculatePrice"

\* C11: the class multiplier lookup is total: the multiplier of the table for
\* a class of the table, exactly 1.0 for every other value, never a failure
\* and never a value <= 0.
C11_ClassLookupTotal ==
    /\ IsMdPrice =>
          LET c == last.request.vehicle_class
              m == last.response.class_multiplier
          IN  /\ c = "COMFORT" => m = [n |-> 1, d |-> 1]
              /\ c = "BUSINESS" => m = [n |-> 9, d |-> 5]
              /\ c = "XL" => m = [n |-> 5, d |-> 2]
              /\ c \notin {"COMFORT", "BUSINESS", "XL"} => m = [n |-> 1, d |-> 1]
              /\ m.n > 0 /\ m.d > 0
    /\ IsEngineCall /\ last.fault = NoFault =>
          LET c == last.request.vehicleClass
              m == last.json.data.breakdown.classMultiplier
          IN  /\ c = "economy" => m = [n |-> 1, d |-> 1]
              /\ c = "comfort" => m = [n |-> 13, d |-> 10]
              /\ c = "business" => m = [n |-> 9, d |-> 5]
              /\ c = "premium" => m = [n |-> 5, d |-> 2]
              /\ c \notin {"economy", "comfort", "business", "premium"}
                    => m = [n |-> 1, d |-> 1]
              /\ m.n > 0 /\ m.d > 0

\* a class value outside the enumeration was looked up
C11_Witness ==
    /\ IsMdPrice
    /\ last.request.vehicle_class = "VehicleClass(7)"
    /\ last.response.class_multiplier = [n |-> 1, d |-> 1]

\* the class values some variant of the service has an entry for
NamedClasses == {"economy", "comfort", "business", "premium", "xl"}

\* the body is a valid request that names a class outside every table
UnknownClassBody(body) ==
    /\ ValidBody(body)
    /\ HasMember(body, "class")
    /\ IsStringToken(MemberToken(body, "class"))
    /\ MemberToken(body, "class") \notin NamedClasses

\* C12: a POST /price with positive distanceM and etaSec and a class outside
\* the known set is answered with a success priced with class multiplier 1.0,
\* never with an error.
C12_UnknownClassPriced ==
    /\ IsPrice /\ Faultless /\ UnknownClassBody(last.req.body) =>
          /\ last.res.status = 200
          /\ ~IsError
          /\ last.res.body.data.breakdown.classMultiplier = [n |-> 1, d |-> 1]
    /\ IsSocketPrice /\ last.req.blank /\ ~last.req.fault
            /\ UnknownClassBody(last.req.body) =>
          /\ last.res.status = 200
          /\ last.res.body.error = JNull

-----------------------------------------------------------------------------
(* Claims about the fare of the engines *)

\* C14: called directly with distance 0 and/or duration 0 the engine answers
\* a price, round(base amount * the multipliers it reports), in which the
\* zero-valued component adds nothing to the base amount.
C14_ZeroInputs ==
    /\ IsEngineCall /\ last.fault = NoFault
            /\ (last.request.distanceM = 0 \/ last.request.etaSec = 0) =>
          LET r  == last.request
              km == IF r.distanceM = 0 THEN RInt(0)
                    ELSE RMul(Rat(r.distanceM, 1000), config.price_per_km)
              mn == IF r.etaSec = 0 THEN RInt(0)
                    ELSE RMul(Rat(r.etaSec, 60), config.price_per_minute)
              d  == last.json.data
          IN  /\ last.json.error = JNull
              /\ d # JNull
              /\ d.price \in Int
              /\ d.price = Round(RMul(RMul(RAdd(RAdd(config.base_price, km), mn),
                                           d.breakdown.classMultiplier),
                                      last.demand))
              /\ r.distanceM = 0 => d.breakdown.distance = 0
              /\ r.etaSec = 0 => d.breakdown.time = 0
    /\ IsMdPrice /\ last.request.distance_m = [n |-> 0, d |-> 1] =>
          LET p == last.response
          IN  /\ p.final_price_rub \in Int
              /\ p.final_price_rub =
                    Round(RMul(RMul(RMul(RInt(last.request.base_price_rub),
                                         p.class_multiplier),
                                    p.surge_multiplier),
                               p.time_multiplier))

\* the engine priced a trip of no distance and no duration
C14_Witness ==
    /\ IsEngineCall
    /\ last.fault = NoFault
    /\ last.request.distanceM = 0
    /\ last.request.etaSec = 0
    /\ last.json.data # JNull
    /\ last.json.data.price =
          Round(RMul(RMul(config.base_price,
                          last.json.data.breakdown.classMultiplier),
                     last.demand))

\* C15: the price of every success is reproduced, within one currency unit,
\* from its breakdown alone: breakdown.base * classMultiplier * distance
\* step * time-of-day multiplier * the reported demandCoeff.
C15_BreakdownRoundTrip ==
    IsPrice /\ ~IsError =>
        LET d       == last.res.body.data
            request == FromJson(Parse(last.req.body))
            again   == RMul(RMul(RMul(RMul(d.breakdown.base,
                                           d.breakdown.classMultiplier),
                                      MdGetDistanceMultiplier(RInt(request.distanceM))),
                                 MdGetTimeOfDayMultiplier(hour)),
                            d.breakdown.demandCoeff)
        IN  Abs(d.price - Round(again)) <= 1

\* C17: with the default configuration and the demand coefficient fixed at
\* 1.0, {distanceM: 5000, etaSec: 600, class: "comfort"} priced in a plain
\* hour has base amount 205 and price 205: the multiplier of comfort is 1.0.
C17_ComfortExample ==
    IsPrice /\ ~IsError /\ hour = 12 /\ last.req.body = BodyFull
            /\ config = MakeConfig(DefaultBasePrice, <<Rat(10, 10), Rat(10, 10)>>) =>
        LET d == last.res.body.data
        IN  /\ RAdd(d.breakdown.base,
                    RInt(d.breakdown.distance + d.breakdown.time)) = RInt(205)
            /\ d.breakdown.classMultiplier = [n |-> 1, d |-> 1]
            /\ d.price = 205

\* C18: the demand coefficient multiplied into a price, and the demandCoeff
\* its breakdown reports, both lie in [demand_min, demand_max].
C18_DemandInRange ==
    IsPrice /\ ~IsError =>
        LET lo == config.demand_coefficient_min
            hi == config.demand_coefficient_max
            c  == last.res.body.data.breakdown.demandCoeff
        IN  /\ RLeq(lo, last.demand) /\ RLeq(last.demand, hi)
            /\ RLeq(lo, c) /\ RLeq(c, hi)

-----------------------------------------------------------------------------
(* Claims about GET /healthz *)

IsHealthz == last.op = "GET /healthz"

\* C20: GET /healthz always answers 200 with status "healthy" and service
\* "pricing-core", whatever was requested before and whatever the
\* configuration.
C20_Healthz ==
    IsHealthz =>
        /\ last.res.status = 200
        /\ last.res.body.status = "healthy"
        /\ last.res.body.service = "pricing-core"

-----------------------------------------------------------------------------
(* Claims about repeated and concurrent computations *)

IsRepeated == last.op \in {"det.engine", "det.md"}

\* C16: two computations given the same request, configuration, time sample
\* and demand coefficient return the same price and the same breakdown,
\* however many other requests were computed between them.
C16_Deterministic ==
    IsRepeated =>
        \A i, j \in DOMAIN last.seen :
            /\ last.seen[i].request = last.seen[j].request
            /\ last.seen[i].hour = last.seen[j].hour
            /\ last.seen[i].demand = last.seen[j].demand
            => last.seen[i].result = last.seen[j].result

\* the global engine priced a request, then another one, then the first one
\* again at the same hour with the same coefficient from an advanced generator
C16_Witness ==
    /\ last.op = "det.engine"
    /\ Len(last.seen) = 3
    /\ rng.idx = 3
    /\ last.seen[1].request = last.seen[3].request
    /\ last.seen[1].hour = last.seen[3].hour
    /\ last.seen[1].demand = last.seen[3].demand
    /\ last.seen[2].request # last.seen[1].request
    /\ last.seen[1].result = last.seen[3].result

IsWorkers == last.op = "workers"

-----------------------------------------------------------------------------
(* Claims about failures, GET /readyz and the state of the httplib service *)

\* C21: the message of an INTERNAL_ERROR or PRICE_CALCULATION_FAILED response
\* is a fixed generic text: it never carries the what() of the exception.
C21_GenericMessage ==
    IsPrice /\ IsError
            /\ ErrorCode \in {"INTERNAL_ERROR", "PRICE_CALCULATION_FAILED"} =>
        /\ last.res.body.error.message # last.req.fault.what
        /\ last.res.body.error.message \notin Whats

\* C22: the basePrice, pricePerKm and pricePerMinute of every GET /readyz
\* response are the values the engine prices with, and neither configuration
\* changes after startup.
C22_ReadyzConfig ==
    [][/\ config' = config
       /\ mainConfig' = mainConfig
       /\ last'.op = "GET /readyz" =>
             last'.res.body.config =
                 [basePrice      |-> config'.base_price,
                  pricePerKm     |-> config'.price_per_km,
                  pricePerMinute |-> config'.price_per_minute]]_vars

\* /readyz answered after a price was computed, under a configured base price
C22_Witness ==
    /\ last.op = "GET /readyz"
    /\ priceLog > 0
    /\ config.base_price = [n |-> -500, d |-> 1]
    /\ last.res.body.config.basePrice = [n |-> -500, d |-> 1]

\* C24: the generator is seeded once, at construction: no request changes
\* its seed, every engine call advances it by exactly one draw, and the
\* coefficient a response reports is the next value of that one sequence.
C24_SeededOnce ==
    [][/\ rng'.seed = rng.seed
       /\ last'.op # "POST /price" => rng' = rng
       /\ last'.op = "POST /price" =>
             /\ rng'.idx = rng.idx + last'.engineCalls
             /\ last'.res.body.data # JNull =>
                   last'.res.body.data.breakdown.demandCoeff =
                       Rat(Round(RMul(DemandDraw(config, rng), RInt(100))), 100)]_vars

\* a second price was drawn from the generator
C24_Witness ==
    /\ IsPrice
    /\ ~IsError
    /\ rng.idx = 2
    /\ priceLog = 2

\* C27: a request rejected with JSON_PARSE_ERROR, INVALID_REQUEST or
\* INVALID_PARAMETERS draws nothing from the generator, writes no "Price
\* calculated" line and leaves the configuration alone.
C27_RejectedFrame ==
    [][(/\ last'.op = "POST /price"
        /\ last'.res.body.error # JNull
        /\ last'.res.body.error.code \in
              {"JSON_PARSE_ERROR", "INVALID_REQUEST", "INVALID_PARAMETERS"})
       => /\ rng' = rng
          /\ priceLog' = priceLog
          /\ config' = config
          /\ mainConfig' = mainConfig]_vars

\* a request was rejected after one price had been computed
C27_Witness ==
    /\ IsPrice
    /\ IsError
    /\ ErrorCode = "INVALID_REQUEST"
    /\ rng.idx = 1
    /\ priceLog = 1

-----------------------------------------------------------------------------
(* Claims about the course of one POST /price *)

IsHandler == last.op = "handler"
IsRouted == IsHandler /\ last.routed

\* the stages of a request, in the order the service is to go through them
StageOrder == <<"traceId", "parse", "fields", "positive", "engine", "respond">>
StageRank(s) == CHOOSE i \in DOMAIN StageOrder : StageOrder[i] = s

\* C25: a POST /price goes through its stages in the order trace id, parse,
\* field validation, positivity validation, engine, respond; the engine is
\* called at most once, and only when the trace id was resolved, the body
\* parsed and both validations passed.
C25_FixedOrder ==
    IsHandler =>
        /\ \A i, k \in DOMAIN last.trail :
              i < k => StageRank(last.trail[i]) < StageRank(last.trail[k])
        /\ last.engineCalls <= 1
        /\ last.engineCalls = 1 =>
              /\ last.traceId # Unresolved
              /\ last.j # JNull
              /\ last.pr.ok
              /\ last.pr.distanceM > 0 /\ last.pr.etaSec > 0

\* the same, of the httplib handler alone
HttplibFixedOrder == last.service = "httplib" => C25_FixedOrder

\* the statements of each handler, run to the end, leave what the handler as
\* a whole leaves
StepsAgree ==
    IsRouted /\ last.pc = "done" =>
        IF last.service = "httplib"
        THEN \E h \in {PostPriceHandler(config, last.rng0, last.req.hdr, last.req.body,
                                        last.req.fault, last.req.uuid)} :
                /\ last.res = h.res
                /\ rng = h.rng
                /\ last.engineCalls = h.engineCalls
        ELSE \E now \in Times :
                last.res = HandlePricingRequest([socket EXCEPT !.counter = @ - 1],
                                                now, last.req)

\* the number of statements a handler at pc has before it at most
StatementsLeft(pc) ==
    CASE pc = "recv"                   -> 8
      [] pc \in {"traceId", "body"}    -> 7
      [] pc = "parse"                  -> 6
      [] pc \in {"fromJson", "contains"} -> 5
      [] pc = "positive"               -> 4
      [] pc = "engine"                 -> 3
      [] pc \in {"setContent", "send"} -> 2
      [] pc = "catch"                  -> 1
      [] OTHER                         -> 0

\* C26: every run of a POST /price handler comes to its end, each of its
\* statements leaving fewer before it, and at its end the response body was
\* set exactly once, whichever way the run went; it is never set twice.
C26_OneResponse ==
    [][IsRouted' =>
          /\ last'.contentSet <= 1
          /\ last'.pc = "done" => /\ last'.contentSet = 1
                                  /\ last'.res.body # JNull
          /\ (IsHandler /\ last.pc \notin {"idle", "done"}) =>
                StatementsLeft(last'.pc) < StatementsLeft(last.pc)]_vars

\* a run that called the engine and then failed in dump() ended with the one
\* INTERNAL_ERROR body
C26_Witness ==
    /\ IsRouted
    /\ last.pc = "done"
    /\ last.engineCalls = 1
    /\ last.exc # ""
    /\ last.res.status = 500
    /\ last.contentSet = 1

-----------------------------------------------------------------------------
(* Claims about magadrive::HttpServer *)

IsServer == last.op = "server"
IsRequest == IsServer /\ last.call = "requestCallback"

\* C28: after every call, the server is running exactly when it holds a
\* daemon handle; start() on a running server returns true and creates no
\* daemon; a failed start() leaves it not running without a handle; stop(),
\* also repeated, from the destructor or from the signal handler, leaves it
\* not running without a handle, and no daemon is stopped twice.
C28_StartStop ==
    [][IsServer' =>
          /\ server'.running <=> server'.daemon # 0
          /\ \A d \in DOMAIN server'.stops : server'.stops[d] <= 1
          /\ (last'.call = "start" /\ server.running) =>
                /\ last'.ret
                /\ server'.created = server.created
                /\ server'.daemon = server.daemon
          /\ (last'.call = "start" /\ ~last'.ret) =>
                /\ ~server'.running
                /\ server'.daemon = 0
          /\ last'.call \in {"stop", "~HttpServer", "signalHandler"} =>
                /\ ~server'.running
                /\ server'.daemon = 0
                /\ \A d \in DOMAIN server'.stops :
                      server'.stops[d] =
                          server.stops[d] + (IF d = server.daemon THEN 1 ELSE 0)]_vars

\* stop() called on a server that was already stopped, after a second daemon
\* had been started and stopped
C28_Witness ==
    /\ IsServer
    /\ last.call = "stop"
    /\ ~last.before.running
    /\ server.created = 2
    /\ server.stops[1] = 1 /\ server.stops[2] = 1

\* C29: a handler is called only for a registered path with a registered
\* method; an unregistered path is answered with HTTP status 404, a
\* registered path with an unregistered method with 405, no handler called.
C29_Dispatch ==
    IsRequest /\ last.queued =>
        LET handlers == last.before.handlers
        IN  /\ last.invoked # "none" =>
                  /\ last.url \in DOMAIN handlers
                  /\ last.method \in DOMAIN handlers[last.url]
            /\ last.url \notin DOMAIN handlers =>
                  last.status = 404 /\ last.invoked = "none"
            /\ (last.url \in DOMAIN handlers
                    /\ last.method \notin DOMAIN handlers[last.url]) =>
                  last.status = 405 /\ last.invoked = "none"

\* the same with the status read from the text handleRequest returns
DispatchByText ==
    IsRequest /\ last.queued =>
        LET handlers == last.before.handlers
        IN  /\ last.invoked # "none" <=>
                  /\ last.url \in DOMAIN handlers
                  /\ last.method \in DOMAIN handlers[last.url]
            /\ last.url \notin DOMAIN handlers =>
                  last.body.statusLine = "HTTP/1.1 404 OK"
            /\ (last.url \in DOMAIN handlers
                    /\ last.method \notin DOMAIN handlers[last.url]) =>
                  last.body.statusLine = "HTTP/1.1 405 OK"

-----------------------------------------------------------------------------
(* Claims about the minimal price of the socket service *)

IsSocketCalculate == last.op = "socket calculatePrice"

\* C30: calculatePrice of the socket service returns at least 100 for a known
\* class, whatever the distance, the duration and the demand multiplier, and
\* 0 only for an unknown class; every success response of the service carries
\* a price of at least 100.
C30_MinimalPrice ==
    /\ IsSocketCalculate =>
          /\ last.vehicleClass \in DOMAIN BasePrices =>
                FLeq(RInt(MinimalPrice), last.price)
          /\ last.price = RInt(0) => last.vehicleClass \notin DOMAIN BasePrices
    /\ (IsSocketPrice /\ last.res.body.error = JNull) =>
          FLeq(RInt(MinimalPrice), last.res.body.data.price)

\* the same for a demand multiplier that is a number
MinimalPriceOfNumbers == ~IsNaN(socket.demandMultiplier) => C30_MinimalPrice

====
